---- MODULE Spec2Model ----
(***************************************************************************)
(* A model of mikrotik.py: the per-target sample source scrape_mikrotik,  *)
(* the fan-in of the sources by aiostream's stream.merge, the exposition   *)
(* encoder wrap and the streaming responder view_export / streaming_fn.    *)
(*                                                                         *)
(* Values are modelled by the text "%s" renders for them, so that the      *)
(* conversions int(), float() and /1000.0 of the source are computed and   *)
(* not assumed.  A label mapping is a sequence of <<key, value>> pairs in  *)
(* insertion order.                                                        *)
(***************************************************************************)
EXTENDS Integers, Sequences, FiniteSets, TLC

\* ------------------------------------------------------------------------
\* Bounds of the model
\* ------------------------------------------------------------------------

\* Number of configured targets in the concurrent specification.
MaxTargets == 2

\* ------------------------------------------------------------------------
\* Module-level configuration of mikrotik.py
\* ------------------------------------------------------------------------

\* PREFIX = os.getenv("PROMETHEUS_PREFIX", "mikrotik_")
PREFIX == "mikrotik_"

\* Python's None, as request.token and os.getenv give it for "absent".
None == "<None>"

\* Python truthiness of a token: None and the empty string are false.
Truthy(s) == s # None /\ s # ""

\* Decimal rendering of m * 10 ** e, for integers beyond 32 bits.
RECURSIVE Zeros(_)
Zeros(e) == IF e = 0 THEN "" ELSE "0" \o Zeros(e - 1)

Pow10(m, e) == ToString(m) \o Zeros(e)

\* RATE_MAPPING, each value as "%s" renders it.
RATE_MAPPING ==
    [r \in {"40Gbps", "10Gbps", "1Gbps", "100Mbps", "10Mbps"} |->
        CASE r = "40Gbps"  -> Pow10(40, 9)
          [] r = "10Gbps"  -> Pow10(10, 9)
          [] r = "1Gbps"   -> Pow10(1, 9)
          [] r = "100Mbps" -> Pow10(100, 6)
          [] r = "10Mbps"  -> Pow10(10, 6)]

\* ------------------------------------------------------------------------
\* Python conversions on the strings the device reports
\* ------------------------------------------------------------------------

\* The integer literals of the modelled device data: int(s) succeeds on them.
IntLit ==
    [s \in {"0", "1", "2", "24", "100", "200", "500", "1500"} |->
        CASE s = "0" -> 0 [] s = "1" -> 1 [] s = "2" -> 2 [] s = "24" -> 24
          [] s = "100" -> 100 [] s = "200" -> 200 [] s = "500" -> 500
          [] s = "1500" -> 1500]

\* The decimal literals with a fraction, in thousandths: float(s) succeeds on
\* them and int(s) raises ValueError.
FracLit ==
    [s \in {"24.1", "0.5", "48.25"} |->
        CASE s = "24.1" -> 24100 [] s = "0.5" -> 500 [] s = "48.25" -> 48250]

\* repr of a float given in thousandths: shortest fraction, at least one digit.
FloatStr(m) ==
    LET whole == m \div 1000
        f     == m % 1000
        d1    == ToString(f \div 100)
        d2    == ToString((f \div 10) % 10)
        d3    == ToString(f % 10)
        frac  == IF f % 10 # 0 THEN d1 \o d2 \o d3
                 ELSE IF f % 100 # 0 THEN d1 \o d2
                 ELSE d1
    IN  ToString(whole) \o "." \o frac

\* A result of evaluating an expression: a value or a raised exception.
Ok(v) == [err |-> "", v |-> v]
Raise(e) == [err |-> e, v |-> ""]

\* "%s" % int(s)
PyInt(s) == IF s \in DOMAIN IntLit THEN Ok(ToString(IntLit[s])) ELSE Raise("ValueError")

\* "%s" % float(s)
PyFloat(s) ==
    IF s \in DOMAIN IntLit THEN Ok(FloatStr(IntLit[s] * 1000))
    ELSE IF s \in DOMAIN FracLit THEN Ok(FloatStr(FracLit[s]))
    ELSE Raise("ValueError")

\* "%s" % (int(s) / 1000.0)
PyMilli(s) == IF s \in DOMAIN IntLit THEN Ok(FloatStr(IntLit[s])) ELSE Raise("ValueError")

\* ------------------------------------------------------------------------
\* The body of each battery's record loop, as a small statement language
\* ------------------------------------------------------------------------

\* Expressions over the record obj.
E(f, field) == [f |-> f, field |-> field]

\* Statements: yield, label assignment, a fresh label mapping, try/except
\* KeyError/else.
Stmt(op, name, tp, key, e, body, orelse) ==
    [op |-> op, name |-> name, tp |-> tp, key |-> key, e |-> e,
     body |-> body, orelse |-> orelse]
NoE == E("", "")
YieldS(name, tp, e) == Stmt("yield", name, tp, "", e, <<>>, <<>>)
SetS(key, e) == Stmt("set", "", "", key, e, <<>>, <<>>)
NewS == Stmt("new", "", "", "", NoE, <<>>, <<>>)
TryS(body, orelse) == Stmt("try", "", "", "", NoE, body, orelse)
\* A bare evaluation, as in `rate = obj["rate"]`.
ProbeS(e) == Stmt("probe", "", "", "", e, <<>>, <<>>)

\* The value of an expression on a record, as the source evaluates it.
Eval(e, obj, target) ==
    CASE e.f = "target" -> Ok(target)
      [] e.f = "one" -> Ok("1")
      [] e.f = "rate" ->
            IF obj["rate"] \in DOMAIN RATE_MAPPING
            THEN Ok(RATE_MAPPING[obj["rate"]]) ELSE Raise("KeyError")
      [] OTHER ->
            IF e.field \notin DOMAIN obj THEN Raise("KeyError")
            ELSE CASE e.f = "get" -> Ok(obj[e.field])
                   [] e.f = "int" -> PyInt(obj[e.field])
                   [] e.f = "float" -> PyFloat(obj[e.field])
                   [] e.f = "milli" -> PyMilli(obj[e.field])

\* labels[key] = v on an insertion-ordered mapping.
SetLabel(lab, key, v) ==
    IF \E i \in 1..Len(lab) : lab[i][1] = key
    THEN [i \in 1..Len(lab) |-> IF lab[i][1] = key THEN <<key, v>> ELSE lab[i]]
    ELSE Append(lab, <<key, v>>)

\* A sample as the source yields it; labels is the mapping's content at the
\* moment of the yield.
Sample(name, tp, value, labels) ==
    [name |-> name, tp |-> tp, value |-> value, labels |-> labels]

\* Execution state of a record body: the samples yielded so far, the current
\* label mapping and the exception that ended it ("" when none).
St0 == [ev |-> <<>>, lab |-> <<>>, err |-> ""]

\* The statements stmts run in order from state st0; an exception ends the
\* run.  (TLC passes the arguments of an operator unevaluated; binding the
\* running state over a singleton set evaluates it once per statement.)
RECURSIVE Exec(_, _, _, _)
Exec(stmts, st0, obj, target) ==
    CHOOSE res \in
      { IF stmts = <<>> \/ st.err # "" THEN st
        ELSE
          LET s == Head(stmts)
              x == Eval(s.e, obj, target)
          IN  Exec(Tail(stmts),
                CASE s.op = "new" -> [st EXCEPT !.lab = <<>>]
                  [] s.op = "probe" ->
                        IF x.err # "" THEN [st EXCEPT !.err = x.err] ELSE st
                  [] s.op = "set" ->
                        IF x.err # "" THEN [st EXCEPT !.err = x.err]
                        ELSE [st EXCEPT !.lab = SetLabel(st.lab, s.key, x.v)]
                  [] s.op = "yield" ->
                        IF x.err # "" THEN [st EXCEPT !.err = x.err]
                        ELSE [st EXCEPT !.ev =
                                Append(st.ev, Sample(s.name, s.tp, x.v, st.lab))]
                  [] s.op = "try" ->
                        CHOOSE after \in
                          { IF b.err = "KeyError" THEN [b EXCEPT !.err = ""]
                            ELSE IF b.err = "" THEN Exec(s.orelse, b, obj, target)
                            ELSE b : b \in {Exec(s.body, st, obj, target)} } : TRUE,
                obj, target) : st \in {st0} } : TRUE

\* The interface loop with a label mapping that lacks the type.
InterfaceBodyNoType ==
    << NewS, SetS("host", E("target", "")), SetS("port", E("get", "name")),
       YieldS("interface-rx-bytes", "counter", E("get", "rx-byte")),
       YieldS("interface-tx-bytes", "counter", E("get", "tx-byte")),
       YieldS("interface-rx-packets", "counter", E("get", "rx-packet")),
       YieldS("interface-tx-packets", "counter", E("get", "tx-packet")),
       TryS(<< YieldS("interface-rx-errors", "counter", E("get", "rx-error")),
               YieldS("interface-tx-errors", "counter", E("get", "tx-error")) >>, <<>>),
       TryS(<< YieldS("interface-rx-drops", "counter", E("get", "rx-drop")),
               YieldS("interface-tx-drops", "counter", E("get", "tx-drop")) >>, <<>>),
       YieldS("interface-running", "gauge", E("int", "tx-byte")),
       YieldS("interface-actual-mtu", "gauge", E("get", "actual-mtu")) >>

\* Lines 59-76: the body of the interface inventory loop.
InterfaceBody ==
    << NewS, SetS("host", E("target", "")), SetS("port", E("get", "name")),
       SetS("type", E("get", "type")),
       YieldS("interface-rx-bytes", "counter", E("get", "rx-byte")),
       YieldS("interface-tx-bytes", "counter", E("get", "tx-byte")),
       YieldS("interface-rx-packets", "counter", E("get", "rx-packet")),
       YieldS("interface-tx-packets", "counter", E("get", "tx-packet")),
       TryS(<< YieldS("interface-rx-errors", "counter", E("get", "rx-error")),
               YieldS("interface-tx-errors", "counter", E("get", "tx-error")) >>, <<>>),
       TryS(<< YieldS("interface-rx-drops", "counter", E("get", "rx-drop")),
               YieldS("interface-tx-drops", "counter", E("get", "tx-drop")) >>, <<>>),
       YieldS("interface-running", "gauge", E("int", "tx-byte")),
       YieldS("interface-actual-mtu", "gauge", E("get", "actual-mtu")) >>

\* The rate lookup with the table lookup inside the guarded block.
RateStmtGuarded ==
    TryS(<< ProbeS(E("get", "rate")),
            YieldS("interface-rate", "gauge", E("rate", "rate")) >>, <<>>)

\* Lines 85-90: the rate lookup; the table lookup is in the else clause, which
\* the except clause does not guard.
RateStmt ==
    TryS(<< ProbeS(E("get", "rate")) >>,
         << YieldS("interface-rate", "gauge", E("rate", "rate")) >>)

\* The physical-layer loop with the status label read like an optional one.
EthernetBodyStatusGuarded ==
    << NewS, SetS("host", E("target", "")), SetS("port", E("get", "name")),
       RateStmt,
       TryS(<< SetS("sfp-vendor-name", E("get", "sfp-vendor-name")) >>, <<>>),
       TryS(<< SetS("sfp-vendor-part-number", E("get", "sfp-vendor-part-number")) >>, <<>>),
       TryS(<< YieldS("interface-sfp-temperature", "gauge", E("get", "sfp-temperature")),
               YieldS("interface-sfp-tx-power", "gauge", E("get", "sfp-tx-power")),
               YieldS("interface-sfp-rx-power", "gauge", E("get", "sfp-tx-power")) >>, <<>>),
       TryS(<< SetS("status", E("get", "status")) >>, <<>>),
       TryS(<< SetS("sfp-module-present", E("int", "sfp-module-present")) >>, <<>>),
       YieldS("interface-status", "gauge", E("one", "")) >>

\* Lines 83-113: the body of the physical-layer monitor loop.
EthernetBody ==
    << NewS, SetS("host", E("target", "")), SetS("port", E("get", "name")),
       RateStmt,
       TryS(<< SetS("sfp-vendor-name", E("get", "sfp-vendor-name")) >>, <<>>),
       TryS(<< SetS("sfp-vendor-part-number", E("get", "sfp-vendor-part-number")) >>, <<>>),
       TryS(<< YieldS("interface-sfp-temperature", "gauge", E("get", "sfp-temperature")),
               YieldS("interface-sfp-tx-power", "gauge", E("get", "sfp-tx-power")),
               YieldS("interface-sfp-rx-power", "gauge", E("get", "sfp-tx-power")) >>, <<>>),
       SetS("status", E("get", "status")),
       TryS(<< SetS("sfp-module-present", E("int", "sfp-module-present")) >>, <<>>),
       YieldS("interface-status", "gauge", E("one", "")) >>

\* Lines 121-129: the body of the power-delivery monitor loop.
PoeBody ==
    << NewS, SetS("host", E("target", "")), SetS("port", E("get", "name")),
       TryS(<< YieldS("poe-out-voltage", "gauge", E("float", "poe-out-voltage")),
               YieldS("poe-out-current", "gauge", E("milli", "poe-out-current")) >>, <<>>),
       SetS("status", E("get", "poe-out-status")),
       YieldS("poe-out-status", "gauge", E("one", "")) >>

\* Lines 137-147: the body of the system resources loop.
ResourceBody ==
    << NewS, SetS("host", E("target", "")),
       YieldS("system-write-sect-total", "counter", E("get", "write-sect-total")),
       YieldS("system-free-memory", "gauge", E("get", "free-memory")),
       TryS(<< YieldS("system-bad-blocks", "counter", E("get", "bad-blocks")) >>, <<>>),
       SetS("version", E("get", "version")), SetS("cpu", E("get", "cpu")),
       SetS("cpu-count", E("get", "cpu-count")),
       SetS("board-name", E("get", "board-name")),
       SetS("architecture-name", E("get", "architecture-name")),
       YieldS("system-version", "gauge", E("one", "")) >>

\* A health loop that names the sample system-<key>.
HealthSampleShortName(key, value, target) ==
    LET f == PyFloat(value)
        host == << <<"host", target>> >>
    IN  IF f.err = "ValueError"
        THEN Sample("system-" \o key, "gauge", "1", SetLabel(host, "state", value))
        ELSE Sample("system-" \o key, "gauge", f.v, host)

\* A health loop that attaches the raw value as state to every reading.
HealthSampleStateAlways(key, value, target) ==
    LET f == PyFloat(value)
        host == << <<"host", target>> >>
    IN  Sample("system-health-" \o key, "gauge",
               IF f.err = "ValueError" THEN "1" ELSE f.v,
               SetLabel(host, "state", value))

\* Lines 154-162: one reading of a system health record.  obj.items() is a
\* sequence of <<key, value>> pairs.
HealthSample(key, value, target) ==
    LET f == PyFloat(value)
        host == << <<"host", target>> >>
    IN  IF f.err = "ValueError"
        THEN Sample("system-health-" \o key, "gauge", "1", SetLabel(host, "state", value))
        ELSE Sample("system-health-" \o key, "gauge", f.v, host)

HealthRun(obj, target) ==
    [ev  |-> [i \in 1..Len(obj) |-> HealthSample(obj[i][1], obj[i][2], target)],
     lab |-> IF obj = <<>> THEN <<>>
             ELSE HealthSample(obj[Len(obj)][1], obj[Len(obj)][2], target).labels,
     err |-> ""]

\* The batteries in the order scrape_mikrotik issues them.
NumBatteries == 5

\* One iteration of battery b's loop on record obj: the samples it yields in
\* order, and the exception that ends it, if any.
RecordRun(b, obj, target) ==
    CASE b = 1 -> Exec(InterfaceBody, St0, obj, target)
      [] b = 2 -> Exec(EthernetBody, St0, obj, target)
      [] b = 3 -> Exec(PoeBody, St0, obj, target)
      [] b = 4 -> Exec(ResourceBody, St0, obj, target)
      [] b = 5 -> HealthRun(obj, target)

\* ------------------------------------------------------------------------
\* State
\* ------------------------------------------------------------------------

VARIABLES
    cfgToken,   \* PROMETHEUS_BEARER_TOKEN
    targets,    \* TARGETS.split(","): the configured target addresses
    dev,        \* per target: whether it accepts a session, and the answer it
                \* gives to each of the five queries
    reqToken,   \* request.token of the /metrics request that arrives
    src,        \* per target: where its scrape_mikrotik generator stands
    ses,        \* per target: the session mk: "none", "open" or "closed"
    task,       \* per target: the merger's pending anext() on its generator
    stalled,    \* per target: its pending network wait never completes
    cpc,        \* where the request stands (view_export, streaming_fn, wrap)
    cur,        \* the sample wrap holds: its target and position, or NoCur
    pend,       \* the line handed to response.write and not yet written
    seen,       \* wrap's metrics_seen
    out,        \* the lines written to the client, in order
    other       \* a second /metrics request: its request.token and the
                \* locals of its view_export, streaming_fn, merger, sources
                \* and wrap, kept while the event loop runs the first

vars == <<cfgToken, targets, dev, reqToken, src, ses, task, stalled,
          cpc, cur, pend, seen, out, other>>

config == <<cfgToken, targets, dev>>

T == 1..Len(targets)

\* A loop that ends at the end marker alone.
MarkersDoneOnly == {"!done"}

\* Lines 57, 81, 118, 134, 152: the replies that end a battery's loop.
Markers == {"!trap", "!done"}

NoCur == [i |-> 0, b |-> 0, r |-> 0, k |-> 0]
NoLine == [kind |-> "", name |-> "", tp |-> "", labels |-> <<>>, value |-> ""]

Pos(pc, b, r, k) == [pc |-> pc, b |-> b, r |-> r, k |-> k]

\* ------------------------------------------------------------------------
\* scrape_mikrotik(target): the generator between two suspension points
\* ------------------------------------------------------------------------

\* The run of battery b's loop body on its r-th record.
Run(i, b, r) == RecordRun(b, dev[i].res[b][r].obj, targets[i])

\* Lines 54-163: resume after the k-th yield of record r of battery b (r = 0:
\* the answer of battery b has just been read) and run to the next
\* suspension point: a yield, the next battery's read_full_answer, an
\* exception, or the end after mk.close().
RECURSIVE Advance(_, _, _, _)

\* A generator that resumes at the last yield of the record.
AdvanceToLast(i, b, r, k) ==
    LET res == dev[i].res[b]
        run == IF r = 0 THEN St0 ELSE Run(i, b, r)
    IN  IF k < Len(run.ev) THEN Pos("yield", b, r, Len(run.ev))
        ELSE IF run.err # "" THEN Pos("raised", b, r, k)
        ELSE IF r + 1 > Len(res) \/ res[r + 1].resp \in Markers
             THEN IF b = NumBatteries THEN Pos("done", b, r, k)
                  ELSE Pos("read", b + 1, 0, 0)
        ELSE Advance(i, b, r + 1, 0)

Advance(i, b, r, k) ==
    LET res == dev[i].res[b]
        run == IF r = 0 THEN St0 ELSE Run(i, b, r)
    IN  IF k < Len(run.ev) THEN Pos("yield", b, r, k + 1)
        ELSE IF run.err # "" THEN Pos("raised", b, r, k)
        ELSE IF r + 1 > Len(res) \/ res[r + 1].resp \in Markers
             THEN IF b = NumBatteries THEN Pos("done", b, r, k)
                  ELSE Pos("read", b + 1, 0, 0)
        ELSE Advance(i, b, r + 1, 0)

\* What the pending anext() of a generator becomes when it reaches p.
TaskAt(p) ==
    CASE p.pc = "yield" -> "item"
      [] p.pc = "raised" -> "exc"
      [] p.pc = "done" -> "stop"
      [] OTHER -> "pending"

\* Line 163: mk.close() is the generator's last statement.
SessionAt(p, s) == IF p.pc = "done" THEN "closed" ELSE s

Reach(i, p) ==
    /\ src' = [src EXCEPT ![i] = p]
    /\ task' = [task EXCEPT ![i] = TaskAt(p)]
    /\ ses' = [ses EXCEPT ![i] = SessionAt(p, ses[i])]

\* Lines 44-55: create_rosapi_connection completes; on success the first
\* query is sent and its answer awaited, on failure the exception leaves the
\* generator.
Connect(i) ==
    /\ task[i] = "pending" /\ src[i].pc = "connect" /\ ~stalled[i]
    /\ IF dev[i].up
       THEN /\ src' = [src EXCEPT ![i] = Pos("read", 1, 0, 0)]
            /\ ses' = [ses EXCEPT ![i] = "open"]
            /\ task' = task
       ELSE /\ src' = [src EXCEPT ![i] = Pos("raised", 0, 0, 0)]
            /\ task' = [task EXCEPT ![i] = "exc"]
            /\ ses' = ses
    /\ UNCHANGED <<config, other, reqToken, stalled, cpc, cur, pend, seen, out>>

\* read_full_answer of battery b completes and the loop runs to its first
\* suspension point.
ReadAnswer(i) ==
    /\ task[i] = "pending" /\ src[i].pc = "read" /\ ~stalled[i]
    /\ Reach(i, Advance(i, src[i].b, 0, 0))
    /\ UNCHANGED <<config, other, reqToken, stalled, cpc, cur, pend, seen, out>>

\* The generator, resumed by a new anext(), runs from its yield to the next
\* suspension point.
Resume(i) ==
    /\ task[i] = "pending" /\ src[i].pc = "yield"
    /\ Reach(i, Advance(i, src[i].b, src[i].r, src[i].k))
    /\ UNCHANGED <<config, other, reqToken, stalled, cpc, cur, pend, seen, out>>

\* The target stops answering: the network wait of the generator never
\* completes (no timeout is set).
Stall(i) ==
    /\ task[i] = "pending" /\ src[i].pc \in {"connect", "read"} /\ ~stalled[i]
    /\ stalled' = [stalled EXCEPT ![i] = TRUE]
    /\ UNCHANGED <<config, other, reqToken, src, ses, task, cpc, cur, pend, seen, out>>

\* ------------------------------------------------------------------------
\* wrap(i): the exposition encoder
\* ------------------------------------------------------------------------

\* The sample at a position of a generator.
SampleAt(c) == Run(c.i, c.b, c.r).ev[c.k]

\* An encoder that renders the labels once the loop is through with the record.
LabelsAtRecordEnd(c) ==
    IF c.b = NumBatteries THEN Run(c.i, c.b, c.r).ev[c.k].labels
    ELSE Run(c.i, c.b, c.r).lab

\* The content of the label mapping a yielded sample refers to, now: the
\* generator keeps assigning to the mapping of its current record after the
\* yield, and the sample holds the mapping, not a copy.  The health battery
\* makes a new mapping for every reading.
LabelsNow(c) ==
    LET run == Run(c.i, c.b, c.r)
        p == src[c.i]
    IN  IF c.b = NumBatteries THEN run.ev[c.k].labels
        ELSE IF p.b = c.b /\ p.r = c.r /\ p.k >= 1 /\ p.pc \in {"yield", "cancelled"}
             THEN run.ev[p.k].labels
        ELSE run.lab

\* Line 35: "# TYPE %s %s" % (PREFIX + name, tp)
TypeLine(s) ==
    [kind |-> "type", name |-> PREFIX \o s.name, tp |-> s.tp,
     labels |-> <<>>, value |-> ""]

\* Lines 37-40: "%s%s %s" % (PREFIX + name, label block, value)
ValueLine(s, labels) ==
    [kind |-> "value", name |-> PREFIX \o s.name, tp |-> "",
     labels |-> labels, value |-> s.value]

\* wrap without the metrics_seen test.
FirstLineUnchecked(c, names) == TypeLine(SampleAt(c))

\* Line 34: the first line wrap yields for a sample.
FirstLine(c, names) ==
    IF SampleAt(c).name \notin names THEN TypeLine(SampleAt(c))
    ELSE ValueLine(SampleAt(c), LabelsNow(c))

\* ------------------------------------------------------------------------
\* view_export, streaming_fn and stream.merge
\* ------------------------------------------------------------------------

\* The token check that lets a request without token through.
RejectedIfPresented(cfg, tok) == Truthy(cfg) /\ Truthy(tok) /\ tok # cfg

\* Line 168: the bearer token check.
Rejected(cfg, tok) == Truthy(cfg) /\ tok # cfg

\* Lines 167-178: the /metrics handler.
Request ==
    /\ cpc = "idle"
    /\ cpc' = IF Rejected(cfgToken, reqToken) THEN "forbidden" ELSE "stream"
    /\ UNCHANGED <<config, other, reqToken, src, ses, task, stalled, cur, pend, seen, out>>

\* Lines 172-175: streaming_fn makes one generator per target; the merger
\* enters them and schedules the first anext() of each; wrap starts with an
\* empty metrics_seen.
StartStream ==
    /\ cpc = "stream"
    /\ src' = [i \in T |-> Pos("connect", 0, 0, 0)]
    /\ task' = [i \in T |-> "pending"]
    /\ seen' = {}
    /\ cpc' = "wait"
    /\ UNCHANGED <<config, other, reqToken, ses, stalled, cur, pend, out>>

\* Leaving `async with combine.stream()`: the merger cancels every pending
\* anext() and closes every generator it still holds.  A generator that is
\* cancelled at a network wait or closed at a yield runs no further
\* statement: it has no try/finally.
Cancelled(p) ==
    IF p.pc \in {"connect", "read", "yield"} THEN [p EXCEPT !.pc = "cancelled"] ELSE p

CleanUp ==
    /\ src' = [i \in T |-> Cancelled(src[i])]
    /\ task' = [i \in T |-> "gone"]

\* The generator the merger re-schedules when the consumer asks for the next
\* item after item c.
Reschedule(c) == c.i

\* A merger that takes its inputs one after the other.
CompletedInTurn(i) ==
    task[i] \in {"item", "stop", "exc"} /\ \A j \in 1..(i - 1) : task[j] = "gone"

\* The merger takes the result of any anext() that has completed, whichever
\* generator it belongs to.
Completed(i) == task[i] \in {"item", "stop", "exc"}

\* A merger that ends with the first generator that is exhausted.
MergerEndsWithFirst(i) == TRUE

\* A merger that gives up on a generator that does not answer.
MergerEndsDroppingStalled(i) == \A j \in T \ {i} : task[j] = "gone" \/ stalled[j]

\* The merger ends when the last generator it holds is exhausted.
MergerEnds(i) == \A j \in T \ {i} : task[j] = "gone"

\* A merger that schedules the next anext() of a generator as soon as it
\* has taken the generator's item.
PickItemEager(i) ==
    /\ cpc = "wait" /\ Completed(i) /\ task[i] = "item"
    /\ LET c == [i |-> i, b |-> src[i].b, r |-> src[i].r, k |-> src[i].k]
           l == FirstLine(c, seen)
       IN  /\ cur' = c
           /\ pend' = l
           /\ cpc' = IF l.kind = "type" THEN "type" ELSE "value"
    /\ task' = [task EXCEPT ![i] = "pending"]
    /\ UNCHANGED <<config, other, reqToken, src, ses, stalled, seen, out>>

\* The merger hands the consumer the item of a completed anext(); wrap
\* yields the first line for it, which streaming_fn passes to response.write.
PickItem(i) ==
    /\ cpc = "wait" /\ Completed(i) /\ task[i] = "item"
    /\ LET c == [i |-> i, b |-> src[i].b, r |-> src[i].r, k |-> src[i].k]
           l == FirstLine(c, seen)
       IN  /\ cur' = c
           /\ pend' = l
           /\ cpc' = IF l.kind = "type" THEN "type" ELSE "value"
    /\ task' = [task EXCEPT ![i] = "none"]
    /\ UNCHANGED <<config, other, reqToken, src, ses, stalled, seen, out>>

\* A generator is exhausted: the merger drops it, and ends when none is left.
PickStop(i) ==
    /\ cpc = "wait" /\ Completed(i) /\ task[i] = "stop"
    /\ task' = [task EXCEPT ![i] = "gone"]
    /\ cpc' = IF MergerEnds(i) THEN "done" ELSE "wait"
    /\ UNCHANGED <<config, other, reqToken, src, ses, stalled, cur, pend, seen, out>>

\* A merger that drops a generator that raised and goes on with the others.
PickExcIsolated(i) ==
    /\ cpc = "wait" /\ Completed(i) /\ task[i] = "exc"
    /\ task' = [task EXCEPT ![i] = "gone"]
    /\ cpc' = IF MergerEnds(i) THEN "done" ELSE "wait"
    /\ UNCHANGED <<config, other, reqToken, src, ses, stalled, cur, pend, seen, out>>

\* The exception of a generator reaches the consumer through the merger and
\* wrap and leaves streaming_fn.
PickExc(i) ==
    /\ cpc = "wait" /\ Completed(i) /\ task[i] = "exc"
    /\ CleanUp
    /\ cpc' = "error"
    /\ UNCHANGED <<config, other, reqToken, ses, stalled, cur, pend, seen, out>>

\* Lines 35-36 and 176: the type line is written; wrap adds the name to
\* metrics_seen and yields the value line.
WriteType ==
    /\ cpc = "type"
    /\ out' = Append(out, pend)
    /\ seen' = seen \cup {SampleAt(cur).name}
    /\ pend' = ValueLine(SampleAt(cur), LabelsNow(cur))
    /\ cpc' = "value"
    /\ UNCHANGED <<config, other, reqToken, src, ses, task, stalled, cur>>

\* Lines 37-40 and 176: the value line is written; wrap asks the merger for
\* the next item and the merger schedules the next anext() of the generator
\* the item came from.
WriteValue ==
    /\ cpc = "value"
    /\ out' = Append(out, pend)
    /\ task' = [task EXCEPT ![Reschedule(cur)] = "pending"]
    /\ cur' = NoCur
    /\ pend' = NoLine
    /\ cpc' = "wait"
    /\ UNCHANGED <<config, other, reqToken, src, ses, stalled, seen>>

\* The client goes away while the response is streaming: streaming_fn is
\* cancelled where it waits (for the merger or for response.write).
Disconnect ==
    /\ cpc \in {"wait", "type", "value"}
    /\ CleanUp
    /\ cpc' = "aborted"
    /\ pend' = NoLine
    /\ UNCHANGED <<config, other, reqToken, ses, stalled, cur, seen, out>>

\* The request-scoped state of a request that has not run yet (cpc "idle")
\* or that never arrives (cpc "absent").
Fresh(tok, n, c) ==
    [reqToken |-> tok,
     src |-> [i \in 1..n |-> Pos("new", 0, 0, 0)],
     ses |-> [i \in 1..n |-> "none"],
     task |-> [i \in 1..n |-> "none"],
     stalled |-> [i \in 1..n |-> FALSE],
     cpc |-> c, cur |-> NoCur, pend |-> NoLine, seen |-> {}, out |-> <<>>]

\* A metrics_seen that is one module-level set.
SharedSet(mine, theirs) == mine

\* Line 32: metrics_seen is a local of wrap, so the encoder of each request
\* has the set it made itself: when the event loop turns to the other
\* request, the set in use is that request's own.
EncoderSet(mine, theirs) == theirs

\* Lines 166-178: every request runs view_export and streaming_fn as a
\* coroutine of its own, with its own generators, merger and wrap; the event
\* loop leaves one request at an await and runs the other.
Switch ==
    /\ other.cpc # "absent"
    /\ other' = [reqToken |-> reqToken, src |-> src, ses |-> ses, task |-> task,
                 stalled |-> stalled, cpc |-> cpc, cur |-> cur, pend |-> pend,
                 seen |-> seen, out |-> out]
    /\ reqToken' = other.reqToken
    /\ src' = other.src
    /\ ses' = other.ses
    /\ task' = other.task
    /\ stalled' = other.stalled
    /\ cpc' = other.cpc
    /\ cur' = other.cur
    /\ pend' = other.pend
    /\ seen' = EncoderSet(seen, other.seen)
    /\ out' = other.out
    /\ UNCHANGED config

Next ==
    \/ Request
    \/ StartStream
    \/ \E i \in T : Connect(i)
    \/ \E i \in T : ReadAnswer(i)
    \/ \E i \in T : Resume(i)
    \/ \E i \in T : Stall(i)
    \/ \E i \in T : PickItem(i)
    \/ \E i \in T : PickStop(i)
    \/ \E i \in T : PickExc(i)
    \/ WriteType
    \/ WriteValue
    \/ Disconnect

\* The steps of the server while two requests are in flight.
NextTwo ==
    \/ Request
    \/ StartStream
    \/ \E i \in T : Connect(i)
    \/ \E i \in T : ReadAnswer(i)
    \/ \E i \in T : Resume(i)
    \/ \E i \in T : Stall(i)
    \/ \E i \in T : PickItem(i)
    \/ \E i \in T : PickStop(i)
    \/ \E i \in T : PickExc(i)
    \/ WriteType
    \/ WriteValue
    \/ Disconnect
    \/ Switch

\* ------------------------------------------------------------------------
\* Device data: the answers a target gives
\* ------------------------------------------------------------------------

\* A record obj from its <<field, value>> pairs.
Obj(pairs) ==
    [f \in {pairs[j][1] : j \in 1..Len(pairs)} |->
        pairs[CHOOSE j \in 1..Len(pairs) : pairs[j][1] = f][2]]

\* obj with the fields S added from vals, and obj without field f.
With(obj, S, vals) ==
    [f \in DOMAIN obj \cup S |-> IF f \in S THEN vals[f] ELSE obj[f]]
Without(obj, f) == [g \in DOMAIN obj \ {f} |-> obj[g]]

\* The entries of a read_full_answer() list.
Re(obj) == [resp |-> "!re", obj |-> obj]
DoneRec == [resp |-> "!done", obj |-> <<>>]
TrapRec == [resp |-> "!trap", obj |-> <<>>]

Empty == <<DoneRec>>

\* A device that answers battery b with res and every other battery with
\* the end marker alone.
Device(b, res) ==
    [up |-> TRUE, res |-> [c \in 1..NumBatteries |-> IF c = b THEN res ELSE Empty]]

Unreachable == [up |-> FALSE, res |-> [c \in 1..NumBatteries |-> Empty]]

IfaceBase ==
    Obj(<< <<"name", "ether1">>, <<"type", "ether">>, <<"rx-byte", "100">>,
           <<"tx-byte", "200">>, <<"rx-packet", "1">>, <<"tx-packet", "2">>,
           <<"actual-mtu", "1500">> >>)
IfaceOpt ==
    Obj(<< <<"rx-error", "0">>, <<"tx-error", "1">>, <<"rx-drop", "2">>,
           <<"tx-drop", "24">> >>)

EthBase == Obj(<< <<"name", "sfp1">>, <<"status", "link-ok">> >>)
EthOpt ==
    Obj(<< <<"rate", "1Gbps">>, <<"sfp-vendor-name", "acme">>,
           <<"sfp-vendor-part-number", "x1">>, <<"sfp-temperature", "24">>,
           <<"sfp-tx-power", "2">>, <<"sfp-rx-power", "1">>,
           <<"sfp-module-present", "1">> >>)

PoeBase == Obj(<< <<"name", "ether2">>, <<"poe-out-status", "powered-on">> >>)
PoeOpt == Obj(<< <<"poe-out-voltage", "24.1">>, <<"poe-out-current", "500">> >>)

ResBase ==
    Obj(<< <<"write-sect-total", "1500">>, <<"free-memory", "200">>,
           <<"version", "7.1">>, <<"cpu", "ARM">>, <<"cpu-count", "2">>,
           <<"board-name", "hEX">>, <<"architecture-name", "arm">> >>)
ResOpt == Obj(<< <<"bad-blocks", "0">> >>)

\* The records of each battery the single-source specification draws from:
\* every subset of the optional fields, and records that lack a required
\* field or carry a value the source cannot convert.
IfaceObjs ==
    {With(IfaceBase, S, IfaceOpt) : S \in SUBSET DOMAIN IfaceOpt}
    \cup {Without(IfaceBase, f) : f \in DOMAIN IfaceBase}
    \cup {[IfaceBase EXCEPT !["tx-byte"] = "n/a"]}

EthObjs ==
    {With(EthBase, S, EthOpt) : S \in SUBSET DOMAIN EthOpt}
    \cup {With(EthBase, S, [EthOpt EXCEPT !["rate"] = "7Gbps"]) :
            S \in {{"rate"}, {"rate", "sfp-temperature", "sfp-tx-power"}}}
    \cup {With(EthBase, {"rate"}, [EthOpt EXCEPT !["rate"] = "40Gbps"])}
    \cup {With(EthBase, {"sfp-module-present"},
               [EthOpt EXCEPT !["sfp-module-present"] = "true"])}
    \cup {Without(With(EthBase, {"rate"}, EthOpt), f) : f \in {"name", "status"}}

PoeObjs ==
    {With(PoeBase, S, PoeOpt) : S \in SUBSET DOMAIN PoeOpt}
    \cup {Without(With(PoeBase, DOMAIN PoeOpt, PoeOpt), f) : f \in DOMAIN PoeBase}
    \cup {With(PoeBase, {"poe-out-voltage"}, [PoeOpt EXCEPT !["poe-out-voltage"] = "n/a"])}

ResObjs ==
    {With(ResBase, S, ResOpt) : S \in SUBSET DOMAIN ResOpt}
    \cup {Without(ResBase, f) : f \in DOMAIN ResBase}

HealthObjs ==
    { <<>>, << <<"voltage", "24.1">> >>, << <<"temperature", "24">> >>,
      << <<"fan-status", "ok">> >>,
      << <<"voltage", "24.1">>, <<"fan-status", "ok">> >>,
      << <<"state", "ok">>, <<"voltage", "n/a">> >> }

BatteryObjs(b) ==
    CASE b = 1 -> IfaceObjs [] b = 2 -> EthObjs [] b = 3 -> PoeObjs
      [] b = 4 -> ResObjs [] b = 5 -> HealthObjs

BaseObj(b) ==
    CASE b = 1 -> IfaceBase [] b = 2 -> With(EthBase, {"rate"}, EthOpt)
      [] b = 3 -> PoeBase [] b = 4 -> ResBase
      [] b = 5 -> << <<"voltage", "24.1">> >>

\* The answers of one battery: one record and the end marker; two records;
\* a trap alone; a list without end marker; records after a marker.
Answers(b) ==
    {<<Re(o), DoneRec>> : o \in BatteryObjs(b)}
    \cup {<<Re(o), Re(BaseObj(b)), DoneRec>> : o \in BatteryObjs(b)}
    \cup { <<TrapRec>>, <<Re(BaseObj(b))>>,
           <<Re(BaseObj(b)), TrapRec, Re(BaseObj(b)), DoneRec>>,
           <<DoneRec, Re(BaseObj(b))>> }

\* A device that answers every battery with its base record.
FullDevice ==
    [up |-> TRUE, res |-> [b \in 1..NumBatteries |-> <<Re(BaseObj(b)), DoneRec>>]]

\* A device whose health readings have the keys of its resource fields.
KindsDevice ==
    [up |-> TRUE,
     res |-> [b \in 1..NumBatteries |->
                IF b = 4 THEN <<Re(With(ResBase, DOMAIN ResOpt, ResOpt)), DoneRec>>
                ELSE IF b = 5
                     THEN << Re(<< <<"bad-blocks", "0">>, <<"free-memory", "200">>,
                                   <<"version", "n/a">> >>), DoneRec >>
                ELSE Empty]]

SourceDevices ==
    UNION {{Device(b, a) : a \in Answers(b)} : b \in 1..NumBatteries}
    \cup {FullDevice, KindsDevice, Unreachable}

\* The devices of the concurrent specification: few samples each, so that
\* every interleaving of the targets is explored.
PoeDevice ==
    Device(3, <<Re(PoeBase), Re(PoeBase), DoneRec>>)
BadRateDevice ==
    Device(2, <<Re(With(EthBase, {"rate"}, EthOpt)),
                Re(With(EthBase, {"rate"}, [EthOpt EXCEPT !["rate"] = "7Gbps"])),
                DoneRec>>)
HealthDevice ==
    [up |-> TRUE,
     res |-> [b \in 1..NumBatteries |->
                IF b = 5 THEN << Re(<< <<"voltage", "24.1">>, <<"fan-status", "ok">> >>),
                                 DoneRec >>
                ELSE <<TrapRec>>]]

MergeDevices == <<PoeDevice, BadRateDevice, HealthDevice, Unreachable>>

\* The merger treats its inputs alike, so of the assignments of devices to
\* targets that differ only by a permutation of the targets one is kept.
Assignments(devices, n) ==
    {[i \in 1..n |-> devices[f[i]]] :
        f \in {g \in [1..n -> 1..Len(devices)] :
                 \A i \in 1..(n - 1) : g[i] <= g[i + 1]}}

\* The devices of the specification with fairness.
LiveDevices == <<BadRateDevice, HealthDevice, Unreachable>>

TargetName(i) == "r" \o ToString(i)

\* ------------------------------------------------------------------------
\* Specifications
\* ------------------------------------------------------------------------

\* The state before the /metrics request, for n targets with the devices d;
\* o is the state of the second request.
StartWith(cfg, tok, n, d, o) ==
    /\ cfgToken = cfg
    /\ targets = [i \in 1..n |-> TargetName(i)]
    /\ dev = d
    /\ reqToken = tok
    /\ src = [i \in 1..n |-> Pos("new", 0, 0, 0)]
    /\ ses = [i \in 1..n |-> "none"]
    /\ task = [i \in 1..n |-> "none"]
    /\ stalled = [i \in 1..n |-> FALSE]
    /\ cpc = "idle"
    /\ cur = NoCur
    /\ pend = NoLine
    /\ seen = {}
    /\ out = <<>>
    /\ other = o

\* One request arrives, no second one.
Start(cfg, tok, n, d) == StartWith(cfg, tok, n, d, Fresh(None, n, "absent"))

\* The concurrent pipeline: up to MaxTargets targets, no token configured.
Init == \E n \in 1..MaxTargets : \E d \in Assignments(MergeDevices, n) : Start(None, None, n, d)

Spec == Init /\ [][Next]_vars

\* One target, every modelled answer of every battery.
InitSource == \E d \in [1..1 -> SourceDevices] : Start(None, None, 1, d)

SpecSource == InitSource /\ [][Next]_vars

\* The bearer token check: every configured token against every request token.
InitAuth ==
    \E cfg \in {None, "", "s3cret"} : \E tok \in {None, "", "s3cret", "wrong"} :
        \E d \in [1..1 -> {PoeDevice, Unreachable}] : Start(cfg, tok, 1, d)

SpecAuth == InitAuth /\ [][Next]_vars

\* Two requests to the same server, one target: each request is in flight
\* while the other starts, runs or has ended.
TwoDevices == {HealthDevice, BadRateDevice}

InitTwo ==
    \E d \in [1..1 -> TwoDevices] :
        StartWith(None, None, 1, d, Fresh(None, 1, "idle"))

SpecTwo == InitTwo /\ [][NextTwo]_vars

\* The same pipeline where a wait that can complete does: the event loop
\* runs every ready task, a target that has not stalled answers, and the
\* client reads what is written.  A stall and a disconnect may happen or not.
\* Every step of Progress consumes a record, a sample or a line, so fairness
\* of their disjunction lets none of them wait for ever.
Progress ==
    \/ Request
    \/ StartStream
    \/ \E i \in T : Connect(i) \/ ReadAnswer(i) \/ Resume(i)
    \/ \E i \in T : PickItem(i) \/ PickStop(i) \/ PickExc(i)
    \/ WriteType
    \/ WriteValue

Fairness == WF_vars(Progress)

InitLive ==
    \E n \in 1..MaxTargets : \E d \in Assignments(LiveDevices, n) : Start(None, None, n, d)

SpecLive == InitLive /\ [][Next]_vars /\ Fairness

\* ------------------------------------------------------------------------
\* Vocabulary of the properties
\* ------------------------------------------------------------------------

\* The value lines written so far, and those that carry target i's address
\* (every sample's first label is host).
IsValue(l) == l.kind = "value"
FromTarget(l, i) == IsValue(l) /\ l.labels # <<>> /\ l.labels[1] = <<"host", targets[i]>>
LinesOf(i) == SelectSeq(out, LAMBDA l : FromTarget(l, i))

\* What scrape_mikrotik is documented to produce for target i: the batteries
\* in order, in each the records before the first marker in order, of each
\* record the samples in statement order, up to the first exception.
RECURSIVE FlatFrom(_, _, _)
FlatFrom(i, b, r) ==
    IF b > NumBatteries THEN <<>>
    ELSE IF r > Len(dev[i].res[b]) \/ dev[i].res[b][r].resp \in Markers
         THEN FlatFrom(i, b + 1, 1)
    ELSE LET run == Run(i, b, r)
         IN  run.ev \o (IF run.err # "" THEN <<>> ELSE FlatFrom(i, b, r + 1))

Expected(i) ==
    IF dev[i].up
    THEN LET f == FlatFrom(i, 1, 1) IN [k \in 1..Len(f) |-> ValueLine(f[k], f[k].labels)]
    ELSE <<>>

Count(seq, x) == Cardinality({k \in 1..Len(seq) : seq[k] = x})

IsPrefix(a, b) == Len(a) <= Len(b) /\ \A k \in 1..Len(a) : a[k] = b[k]

\* ------------------------------------------------------------------------
\* Properties
\* ------------------------------------------------------------------------

\* C1: in one response, every metric name that appears on a value line has
\* exactly one type-declaration line, written before the name's first value
\* line, whatever the interleaving of the targets' samples.
C1_DeclaredOnceBeforeUse ==
    \A j \in 1..Len(out) :
        IsValue(out[j]) =>
            LET decl == {d \in 1..Len(out) :
                            out[d].kind = "type" /\ out[d].name = out[j].name}
            IN  Cardinality(decl) = 1 /\ \A d \in decl : d < j

\* C1 witness: a completed response in which two targets wrote value lines
\* of the same metric name.
C1_Witness ==
    /\ cpc = "done"
    /\ \E j, k \in 1..Len(out) :
        /\ j < k /\ IsValue(out[j]) /\ IsValue(out[k])
        /\ out[j].name = out[k].name
        /\ out[j].labels[1] # out[k].labels[1]

\* C2: with a bearer token configured, a request whose token is missing or
\* differs is answered forbidden: no stream is started, no line is written
\* and no session is opened; with no token configured or a matching token
\* the request is not refused and the stream is started.
C2_TokenGate ==
    cpc # "idle" =>
        IF Truthy(cfgToken) /\ reqToken # cfgToken
        THEN /\ cpc = "forbidden"
             /\ out = <<>> /\ pend = NoLine
             /\ \A i \in T : ses[i] = "none" /\ task[i] = "none" /\ src[i].pc = "new"
        ELSE cpc \in {"stream", "wait", "type", "value", "done", "error", "aborted"}

\* C2 witness: a request without token refused under a configured token.
C2_Witness == cpc = "forbidden" /\ reqToken = None /\ Truthy(cfgToken)

\* C3: a source that opened a session and stopped, by exhausting its last
\* battery or by a hard error of its own, has closed the session.
C3_SessionClosedOnStop ==
    \A i \in T : src[i].pc \in {"done", "raised"} => ses[i] # "open"

\* C4: once the response is aborted (client disconnect or a fatal error of a
\* target), no source is still running and no session of the request is
\* left open.
C4_AbortClosesSessions ==
    cpc \in {"aborted", "error"} =>
        \A i \in T : /\ src[i].pc \notin {"connect", "read", "yield"}
                     /\ ses[i] # "open"

\* Every sample of target i is written.
AllWritten(i) == LinesOf(i) = Expected(i)

\* C5: a target that stalls for ever, at any of its network waits, the
\* opening of its session included, does not keep the other targets'
\* samples back: unless the response is aborted, every target that has not
\* stalled gets all its samples written.
C5_StallDoesNotBlock ==
    <>(\/ cpc \in {"forbidden", "aborted", "error"}
       \/ \A i \in T : stalled[i] \/ AllWritten(i))

\* C5 witness: one target has stalled while opening its session, and every
\* sample of another target is written.
C5_Witness ==
    \E i, j \in T :
        /\ stalled[i] /\ src[i].pc = "connect"
        /\ ~stalled[j] /\ Expected(j) # <<>> /\ AllWritten(j)

\* The samples of the first n sources, and the value lines written.
RECURSIVE ExpectedUpTo(_)
ExpectedUpTo(n) == IF n = 0 THEN <<>> ELSE ExpectedUpTo(n - 1) \o Expected(n)

ValueLines == SelectSeq(out, IsValue)

\* C6: when the merger ends without a hard error and the consumer has read
\* to the end, the value lines written are, as a multiset, the samples of
\* all the sources: none lost, none duplicated.
C6_EverySampleExactlyOnce ==
    cpc = "done" =>
        LET e == ExpectedUpTo(Len(targets))
            w == ValueLines
        IN  /\ Len(w) = Len(e)
            /\ \A k \in 1..Len(e) : Count(w, e[k]) = Count(e, e[k])

\* C6 witness: a response of two targets, each with samples, read to the end.
C6_Witness ==
    /\ cpc = "done" /\ Len(targets) >= 2
    /\ \A i \in T : Len(Expected(i)) >= 2

\* C7: the value lines of one target appear in the order its source
\* produces them (battery, then record, then field), whatever lines of other
\* targets come in between.
C7_PerTargetOrder == \A i \in T : IsPrefix(LinesOf(i), Expected(i))

\* C7 witness: lines of one target written before and after a line of
\* another target.
C7_Witness ==
    \E a, b, c \in 1..Len(out) :
        /\ a < b /\ b < c
        /\ \E i, j \in T :
            i # j /\ FromTarget(out[a], i) /\ FromTarget(out[b], j) /\ FromTarget(out[c], i)

\* A source has ended with an exception.
Raised == \E i \in T : src[i].pc = "raised"

\* C8: a hard error of any one source reaches the consumer and aborts the
\* whole stream: the response never completes once a source has raised, the
\* error does reach the consumer unless the client leaves first, and when it
\* has, every line produced is written and no line is written any more.
C8_ErrorAbortsStream ==
    /\ [][/\ Raised => cpc' # "done"
          /\ cpc' = "error" =>
                /\ out' = out /\ pend' = NoLine
                /\ \A i \in T : src'[i].pc \notin {"connect", "read", "yield"}]_vars
    /\ (Raised ~> cpc \in {"error", "aborted"})

\* C8 witness: the error of one source has reached the consumer after lines
\* were written, and another target's source was cancelled by it.
C8_Witness ==
    /\ cpc = "error" /\ out # <<>>
    /\ \E i, j \in T : src[i].pc = "raised" /\ src[j].pc = "cancelled"

\* The record has a rate name that is not in the rate table.
UnknownRate(o) == "rate" \in DOMAIN o /\ o["rate"] \notin DOMAIN RATE_MAPPING

\* The records of battery b the loop gets to: those before the first marker.
Processed(i, b) ==
    {r \in 1..Len(dev[i].res[b]) : \A q \in 1..r : dev[i].res[b][q].resp \notin Markers}

RateLines == SelectSeq(out, LAMBDA l : IsValue(l) /\ l.name = PREFIX \o "interface-rate")

\* C9: a physical-layer record whose rate name is not in the rate table is a
\* hard error of the source: the record yields no interface-rate sample, the
\* source raises at it and never gets past it.
C9_UnknownRateIsHardError ==
    \A i \in T : \A r \in Processed(i, 2) :
        UnknownRate(dev[i].res[2][r].obj) =>
            /\ src[i].b <= 2
            /\ src[i].b = 2 => src[i].r <= r
            /\ (src[i].b = 2 /\ src[i].r = r) => (src[i].pc = "raised" /\ src[i].k = 0)
            /\ Len(RateLines) <= Cardinality({q \in 1..(r - 1) :
                                    "rate" \in DOMAIN dev[i].res[2][q].obj})
            /\ \A k \in 1..Len(RateLines) :
                    \E n \in DOMAIN RATE_MAPPING : RateLines[k].value = RATE_MAPPING[n]

\* C9 witness: the source has raised at a record with an unknown rate name
\* and the error has reached the consumer.
C9_Witness ==
    /\ cpc = "error"
    /\ \E i \in T :
        /\ src[i].pc = "raised" /\ src[i].b = 2 /\ src[i].r >= 1
        /\ UnknownRate(dev[i].res[2][src[i].r].obj)

\* The optional samples: battery, sample name, the field the sample is built from.
OptionalSamples ==
    { <<1, "interface-rx-errors", "rx-error">>, <<1, "interface-tx-errors", "tx-error">>,
      <<1, "interface-rx-drops", "rx-drop">>, <<1, "interface-tx-drops", "tx-drop">>,
      <<2, "interface-sfp-temperature", "sfp-temperature">>,
      <<2, "interface-sfp-tx-power", "sfp-tx-power">>,
      <<2, "interface-sfp-rx-power", "sfp-rx-power">>,
      <<3, "poe-out-voltage", "poe-out-voltage">>,
      <<3, "poe-out-current", "poe-out-current">>,
      <<4, "system-bad-blocks", "bad-blocks">> }

\* C10: each optional sample depends on its own field alone: in a response
\* read to the end, for every record the source processed, the sample of an
\* optional field is written exactly when the record has that field.
C10_OptionalSampleIffOwnField ==
    cpc = "done" =>
        \A i \in T : \A o \in OptionalSamples :
            Cardinality({j \in 1..Len(out) :
                            FromTarget(out[j], i) /\ out[j].name = PREFIX \o o[2]})
              = Cardinality({r \in Processed(i, o[1]) : o[3] \in DOMAIN dev[i].res[o[1]][r].obj})

\* The samples of an interface record in the documented order: the full set,
\* and the set without the optional error and drop counters.
IfaceFull ==
    << "interface-rx-bytes", "interface-tx-bytes", "interface-rx-packets",
       "interface-tx-packets", "interface-rx-errors", "interface-tx-errors",
       "interface-rx-drops", "interface-tx-drops", "interface-running",
       "interface-actual-mtu" >>
IfaceCore ==
    << "interface-rx-bytes", "interface-tx-bytes", "interface-rx-packets",
       "interface-tx-packets", "interface-running", "interface-actual-mtu" >>

AllOpt(o) == DOMAIN IfaceOpt \subseteq DOMAIN o
NoOpt(o) == DOMAIN IfaceOpt \cap DOMAIN o = {}

\* Target i answers the interface query alone, with records that have all
\* of the optional fields or none.
IfaceOnly(i) ==
    /\ dev[i].up
    /\ \A b \in 2..NumBatteries : Processed(i, b) = {}
    /\ \A r \in Processed(i, 1) :
          AllOpt(dev[i].res[1][r].obj) \/ NoOpt(dev[i].res[1][r].obj)

\* Name and label block of the lines documented for the interface records
\* of target i from record r on.
RECURSIVE IfaceDocumented(_, _)
IfaceDocumented(i, r) ==
    IF r \notin Processed(i, 1) THEN <<>>
    ELSE LET o == dev[i].res[1][r].obj
             names == IF AllOpt(o) THEN IfaceFull ELSE IfaceCore
         IN  [k \in 1..Len(names) |->
                <<PREFIX \o names[k],
                  << <<"host", targets[i]>>, <<"port", o["name"]>>,
                     <<"type", o["type"]>> >> >>]
             \o IfaceDocumented(i, r + 1)

\* C11: an interface record with every optional field yields exactly the ten
\* documented samples, one without any optional field exactly the six
\* non-optional ones, in the documented order and nothing else, each with
\* the labels host, port, type in that order.
C11_InterfaceSampleSets ==
    cpc = "done" =>
        \A i \in T :
            IfaceOnly(i) =>
                [k \in 1..Len(LinesOf(i)) |-> <<LinesOf(i)[k].name, LinesOf(i)[k].labels>>]
                  = IfaceDocumented(i, 1)

\* C11 witness: a response read to the end whose target reported one record
\* with every optional field and one with none: sixteen value lines.
C11_Witness ==
    /\ cpc = "done"
    /\ \E i \in T :
        /\ IfaceOnly(i) /\ Len(LinesOf(i)) = 16
        /\ \E r, q \in Processed(i, 1) :
              AllOpt(dev[i].res[1][r].obj) /\ NoOpt(dev[i].res[1][q].obj)

\* The decimal texts that denote the number a raw reading parses to; none
\* when the reading is not a number.
Renderings(v) ==
    CASE v = "24.1" -> {"24.1"}
      [] v = "24" -> {"24", "24.0"}
      [] OTHER -> {}

\* Target i answers the health query alone.
HealthOnly(i) ==
    dev[i].up /\ \A b \in 1..(NumBatteries - 1) : Processed(i, b) = {}

\* The readings of the health records of target i from record r on, as
\* <<key, raw value>> pairs in the order the device reports them.
RECURSIVE HealthReadings(_, _)
HealthReadings(i, r) ==
    IF r \notin Processed(i, NumBatteries) THEN <<>>
    ELSE dev[i].res[NumBatteries][r].obj \o HealthReadings(i, r + 1)

\* Line l is the documented line of the reading <<key, raw value>> of target i.
HealthLineOf(l, i, kv) ==
    /\ l.name = PREFIX \o "system-health-" \o kv[1]
    /\ IF Renderings(kv[2]) # {}
       THEN l.value \in Renderings(kv[2]) /\ l.labels = << <<"host", targets[i]>> >>
       ELSE l.value = "1" /\ l.labels = << <<"host", targets[i]>>, <<"state", kv[2]>> >>

\* C12: every key of a system-health record gives exactly one gauge sample
\* named system-health-<key>: its value is the reading and it has no state
\* label when the reading is a number; otherwise its value is 1 and the raw
\* reading is the label state.
C12_HealthReadings ==
    cpc = "done" =>
        \A i \in T :
            HealthOnly(i) =>
                LET h == HealthReadings(i, 1)
                    w == LinesOf(i)
                IN  /\ Len(w) = Len(h)
                    /\ \A k \in 1..Len(h) : HealthLineOf(w[k], i, h[k])
                    /\ \A j \in 1..Len(out) : out[j].kind = "type" => out[j].tp = "gauge"

\* C12 witness: a response read to the end with a reading that is a number
\* and a reading that is not.
C12_Witness ==
    /\ cpc = "done"
    /\ \E i \in T :
        /\ HealthOnly(i)
        /\ \E j, k \in 1..Len(HealthReadings(i, 1)) :
              /\ Renderings(HealthReadings(i, 1)[j][2]) # {}
              /\ Renderings(HealthReadings(i, 1)[k][2]) = {}
        /\ Len(LinesOf(i)) >= 2

\* The lines o of one response declare what they carry: every name on a
\* value line has exactly one type line, before it, and every type line is
\* the last line or has the first value line of its name right after it.
WellDeclared(o) ==
    \A j \in 1..Len(o) :
        IF IsValue(o[j])
        THEN LET decl == {d \in 1..Len(o) : o[d].kind = "type" /\ o[d].name = o[j].name}
             IN  Cardinality(decl) = 1 /\ \A d \in decl : d < j
        ELSE /\ j < Len(o) => IsValue(o[j + 1]) /\ o[j + 1].name = o[j].name
             /\ \A d \in 1..(j - 1) : o[d].name # o[j].name

\* C13: the set of declared names belongs to one request: of two requests,
\* one after the other or both in flight, each response has its own type
\* line for every name it carries, and none that the other's lines caused.
C13_DeclaredPerRequest == WellDeclared(out) /\ WellDeclared(other.out)

\* C13 witness: two requests in flight at once, each having written the
\* type line of the same name and more than one value line.
C13_Witness ==
    /\ cpc \in {"wait", "type", "value"} /\ other.cpc \in {"wait", "type", "value"}
    /\ Len(SelectSeq(out, IsValue)) >= 2 /\ Len(SelectSeq(other.out, IsValue)) >= 1
    /\ out[1].kind = "type" /\ other.out[1] = out[1]

\* The records of battery b of target i that come before the first reply
\* that is not a data record.
Consumed(i, b) ==
    {r \in 1..Len(dev[i].res[b]) : \A q \in 1..r : dev[i].res[b][q].resp = "!re"}

\* The number of samples the records 1..r of battery b yield.
RECURSIVE SumEv(_, _, _)
SumEv(i, b, r) == IF r = 0 THEN 0 ELSE Len(Run(i, b, r).ev) + SumEv(i, b, r - 1)

\* The samples of its current battery the source of target i has yielded.
Yielded(i) ==
    IF src[i].r = 0 THEN 0 ELSE SumEv(i, src[i].b, src[i].r - 1) + src[i].k

\* The battery whose loop yields the samples of a metric name.
BatteryOf(name) ==
    IF \E k \in 1..Len(IfaceFull) : name = PREFIX \o IfaceFull[k] THEN 1
    ELSE IF name \in {PREFIX \o n : n \in {"interface-rate", "interface-sfp-temperature",
                        "interface-sfp-tx-power", "interface-sfp-rx-power",
                        "interface-status"}} THEN 2
    ELSE IF name \in {PREFIX \o n : n \in {"poe-out-voltage", "poe-out-current",
                        "poe-out-status"}} THEN 3
    ELSE IF name \in {PREFIX \o n : n \in {"system-write-sect-total", "system-free-memory",
                        "system-bad-blocks", "system-version"}} THEN 4
    ELSE 5

\* C14: the batteries of a target are issued in the order interface,
\* physical layer, power delivery, resources, health, each after every
\* record of the previous answer before its end was consumed; a done or trap
\* marker ends the battery: no record after it yields a sample, the source
\* goes on to the next battery, and a trap is never an error.
C14_BatteriesInOrder ==
    /\ [](\A i \in T :
            /\ src[i].pc = "yield" => src[i].r \in Consumed(i, src[i].b)
            /\ (src[i].pc = "raised" /\ src[i].b >= 1) => src[i].r \in Consumed(i, src[i].b)
            /\ \A j, k \in 1..Len(LinesOf(i)) :
                  j < k => BatteryOf(LinesOf(i)[j].name) <= BatteryOf(LinesOf(i)[k].name))
    /\ [][\A i \in T :
            /\ src'[i].b \in {src[i].b, src[i].b + 1}
            /\ (src'[i].b = src[i].b + 1 /\ src[i].b >= 1) =>
                  /\ src[i].pc \in {"read", "yield"} /\ src'[i].pc = "read"
                  /\ Yielded(i) = SumEv(i, src[i].b, Cardinality(Consumed(i, src[i].b)))
            /\ (src'[i].pc = "done" /\ src[i].pc # "done") =>
                  /\ src[i].b = NumBatteries
                  /\ Yielded(i) = SumEv(i, src[i].b, Cardinality(Consumed(i, src[i].b)))]_vars

\* C14 witness: a source has gone through all five batteries although an
\* answer had a trap marker with a data record after it, and the record
\* before the trap gave its lines.
C14_Witness ==
    \E i \in T :
        /\ src[i].pc = "done" /\ LinesOf(i) # <<>>
        /\ \E b \in 1..(NumBatteries - 1) : \E r \in 2..(Len(dev[i].res[b]) - 1) :
              dev[i].res[b][r].resp = "!trap" /\ dev[i].res[b][r + 1].resp = "!re"

\* The number of samples the generator of target i has yielded so far: all
\* those of the batteries it has left, and those of its current battery.
RECURSIVE YieldedBefore(_, _)
YieldedBefore(i, b) ==
    IF b <= 1 THEN 0
    ELSE SumEv(i, b - 1, Cardinality(Consumed(i, b - 1))) + YieldedBefore(i, b - 1)

Produced(i) == YieldedBefore(i, src[i].b) + Yielded(i)

RECURSIVE ProducedUpTo(_)
ProducedUpTo(n) == IF n = 0 THEN 0 ELSE Produced(n) + ProducedUpTo(n - 1)

\* The samples the sources have produced and the client has not been sent.
Unwritten == ProducedUpTo(Len(targets)) - Len(ValueLines)

\* C15: the response is streamed: a line is written before the next sample
\* is taken from the merger, and the samples produced by the sources and not
\* yet written never number more than the targets.
C15_Streamed ==
    /\ [](Unwritten <= Len(targets))
    /\ []((pend # NoLine) <=> (cpc \in {"type", "value"}))
    /\ [][(cur' # cur /\ cur' # NoCur) => (pend = NoLine /\ cur = NoCur)]_vars

\* C15 witness: every line of a target that has finished is written while
\* another target has not yet answered.
C15_Witness ==
    \E i, j \in T :
        /\ src[j].pc = "done" /\ Expected(j) # <<>> /\ AllWritten(j)
        /\ src[i].pc \in {"connect", "read"} /\ ~stalled[i]

\* The samples the source of target i yields, with their kinds.
SamplesOf(i) == IF dev[i].up THEN FlatFrom(i, 1, 1) ELSE <<>>

\* C16: in one response no metric name has two kinds: the samples that
\* share a name share a kind, whatever the records and the keys of the
\* health readings, so the kind of every sample written is the kind its
\* name was declared with.
C16_OneKindPerName ==
    /\ \A i, j \in T : \A si \in {SamplesOf(i)} : \A sj \in {SamplesOf(j)} :
          \A a \in 1..Len(si) : \A b \in 1..Len(sj) :
              si[a].name = sj[b].name => si[a].tp = sj[b].tp
    /\ cpc = "value" =>
          \A d \in 1..Len(out) :
              (out[d].kind = "type" /\ out[d].name = PREFIX \o SampleAt(cur).name) =>
                  out[d].tp = SampleAt(cur).tp

\* C16 witness: the gauge of a health reading whose key is bad-blocks is
\* being written after the counter system-bad-blocks of the same target.
C16_Witness ==
    /\ cpc = "value" /\ SampleAt(cur).name = "system-health-bad-blocks"
    /\ \E d \in 1..Len(out) :
          out[d].kind = "type" /\ out[d].name = PREFIX \o "system-bad-blocks"
            /\ out[d].tp = "counter"

\* The fields of a record of battery b that are not on the list of optional
\* fields: as the documentation has it, and without the rate.
DocumentedRequired(b) ==
    CASE b = 1 -> {"name", "type", "rx-byte", "tx-byte", "rx-packet", "tx-packet",
                   "actual-mtu"}
      [] b = 2 -> {"name", "rate", "status"}
      [] b = 3 -> {"name", "poe-out-status"}
      [] b = 4 -> {"write-sect-total", "free-memory", "version", "cpu", "cpu-count",
                   "board-name", "architecture-name"}
      [] OTHER -> {}

Required(b) == DocumentedRequired(b) \ {"rate"}

\* The source of target i does not get past record r of battery b, and the
\* response does not complete.
StopsAt(i, b, r) ==
    /\ src[i].b <= b
    /\ src[i].b = b => src[i].r <= r
    /\ src[i].pc # "done" /\ cpc # "done"

\* C17 as documented: a record that lacks a field which is not on the list
\* of optional fields, the rate of a physical-layer record included, is a
\* hard error of the source: the source never gets past it.
C17_MissingFieldIsHardError ==
    \A i \in T : \A b \in 1..NumBatteries : \A r \in Consumed(i, b) :
        ~(DocumentedRequired(b) \subseteq DOMAIN dev[i].res[b][r].obj) => StopsAt(i, b, r)

\* C17 as the code has it: the rate is optional too (a record without rate
\* yields no interface-rate sample and the loop goes on); a record that
\* lacks any other field that is not on the list of optional fields is a
\* hard error of the source, which raises at the access and never gets past
\* the record.
C17_MissingRequiredFieldIsHardError ==
    \A i \in T : \A b \in 1..NumBatteries : \A r \in Consumed(i, b) :
        ~(Required(b) \subseteq DOMAIN dev[i].res[b][r].obj) =>
            /\ StopsAt(i, b, r)
            /\ (src[i].b = b /\ src[i].r = r) =>
                  \/ src[i].pc \in {"raised", "cancelled"}
                  \/ src[i].pc = "yield" /\ task[i] # "stop"

\* C17 witness: a physical-layer record with a rate and without status: the
\* source raised after the interface-rate line, and the error has reached
\* the consumer.
C17_Witness ==
    /\ cpc = "error" /\ Len(RateLines) = 1
    /\ \E i \in T :
        /\ src[i].pc = "raised" /\ src[i].b = 2 /\ src[i].r = 1
        /\ "status" \notin DOMAIN dev[i].res[2][1].obj
        /\ "rate" \in DOMAIN dev[i].res[2][1].obj

\* The transceiver gauges and the field each is documented to report.
SfpGauges ==
    { <<"interface-sfp-temperature", "sfp-temperature">>,
      <<"interface-sfp-tx-power", "sfp-tx-power">>,
      <<"interface-sfp-rx-power", "sfp-rx-power">> }

\* C18: every line of a transceiver gauge comes from a physical-layer
\* record that has the gauge's own field and carries that field's value;
\* in particular interface-sfp-rx-power is written only for a record with
\* an sfp-rx-power field, with that field's value.
C18_SfpGaugeOwnField ==
    \A i \in T : \A g \in SfpGauges : \A w \in {LinesOf(i)} : \A k \in 1..Len(w) :
        w[k].name = PREFIX \o g[1] =>
            \E r \in Consumed(i, 2) :
                /\ g[2] \in DOMAIN dev[i].res[2][r].obj
                /\ w[k].value = dev[i].res[2][r].obj[g[2]]

\* The keys of a label block, in order.
Keys(labels) == [a \in 1..Len(labels) |-> labels[a][1]]

NoDuplicateKey(labels) ==
    \A a, b \in 1..Len(labels) : a # b => labels[a][1] # labels[b][1]

\* C19: the label block of every value line is the content the sample's
\* label mapping had when the source yielded the sample, in insertion order
\* and without duplicate key: what the source assigns to the mapping
\* afterwards is not on the line (the interface-rate line has host and port
\* alone), whatever the interleaving of the merger and the consumer.
C19_LabelsAsYielded ==
    /\ \A i \in T : \A w \in {LinesOf(i)} : \A e \in {Expected(i)} :
          \A k \in 1..Len(w) :
              /\ k <= Len(e) /\ w[k].labels = e[k].labels
              /\ NoDuplicateKey(w[k].labels)
              /\ w[k].name = PREFIX \o "interface-rate" => Keys(w[k].labels) = <<"host", "port">>
    /\ cpc = "value" => pend.labels = SampleAt(cur).labels

\* C19 witness: the interface-rate line of a record was written with host
\* and port alone, and later the interface-status line of the same target,
\* to whose mapping the status was added in between.
C19_Witness ==
    \E a, b \in 1..Len(out) :
        /\ a < b
        /\ out[a].name = PREFIX \o "interface-rate" /\ IsValue(out[a])
        /\ Keys(out[a].labels) = <<"host", "port">>
        /\ out[b].name = PREFIX \o "interface-status" /\ IsValue(out[b])
        /\ out[b].labels[1] = out[a].labels[1]
        /\ Keys(out[b].labels) = <<"host", "port", "status">>

\* Every target accepts the session and no record of its answers makes the
\* source raise.
NoHardError ==
    \A i \in T :
        /\ dev[i].up
        /\ \A b \in 1..NumBatteries : \A r \in Consumed(i, b) : Run(i, b, r).err = ""

SomeStalled == \E i \in T : stalled[i]

\* The response is complete: every source is through its fifth battery and
\* is no longer held by the merger, every line is written, the stream has
\* ended.
ResponseComplete ==
    /\ cpc = "done" /\ pend = NoLine
    /\ \A i \in T : src[i].pc = "done" /\ task[i] = "gone" /\ AllWritten(i)

\* C20: when every session opens, no source raises and the client keeps
\* reading, the response completes under fair scheduling unless a target
\* stalls; and once a target has stalled the response never completes:
\* nothing times the target out.
C20_CompletesUnlessStalled ==
    /\ NoHardError => <>(ResponseComplete \/ SomeStalled \/ cpc = "aborted")
    /\ [](SomeStalled => cpc # "done")
    /\ [](cpc = "done" => ResponseComplete)

\* C20 witness: the response of two targets is complete and lines were
\* written for both.
C20_Witness ==
    /\ ResponseComplete /\ Len(targets) >= 2
    /\ \A i \in T : Len(LinesOf(i)) >= 2

====
